---- MODULE Spec2Model ----
(***************************************************************************)
(* A model of the go_cache package (src/unnamed/part_000): an in-process   *)
(* key-value cache whose items carry an absolute expiration, guarded by a  *)
(* sync.RWMutex, with a background goroutine (gcLoop) that evicts expired  *)
(* items and a gob based Save/Load.                                        *)
(*                                                                         *)
(* Time is the value time.Now().UnixNano() would return, scaled down to a  *)
(* small signed integer of IntBits bits, so that the int64 wrap-around of  *)
(* time.Now().Add(d).UnixNano() is part of the model.                      *)
(***************************************************************************)
EXTENDS Integers, FiniteSets, Sequences, TLC

\* ---------------------------------------------------------------- bounds
\* The clock runs from StartTime, its value when NewCache is called, to MaxTime.
StartTime == 1
MaxTime == 3
\* The width of the integers that hold a time (int64, scaled down).
IntBits == 4
\* The gcInterval NewCache is given.
GcInterval == 1

\* ------------------------------------------------------------- constants
NoExpiration == -1
DefaultExpiration == 0

MaxInt == 2^(IntBits - 1) - 1
MinInt == -(2^(IntBits - 1))

\* int64 arithmetic: the result of an addition, wrapped to the integer width.
Wrap(x) == ((x - MinInt) % (2^IntBits)) + MinInt

\* The caller goroutines: each makes one call of a method of the cache, so that
\* two calls run one after the other or at the same time, beside gcLoop.
Procs == {"p1", "p2"}
Keys == {"a", "b"}
\* The value each caller goroutine stores: the writer of an item can be told.
Values == {"x", "y"}
ValueOf(p) == IF p = "p1" THEN "x" ELSE "y"
NoKey == ""
NoValue == "nil"

\* The durations a caller passes: the two sentinels, a short positive one and
\* the longest one (time.Duration(math.MaxInt64)).
Durations == {NoExpiration, DefaultExpiration, 1, MaxInt}

\* The defaultExpiration values NewCache is given.
DefaultExpirations == {NoExpiration, DefaultExpiration, 1}

Item(o, e) == [Object |-> o, Expiration |-> e]

EmptyMap == [k \in {} |-> Item(NoValue, 0)]

\* m[k] = it
Put(m, k, it) == [x \in (DOMAIN m) \cup {k} |-> IF x = k THEN it ELSE m[x]]

\* delete(m, k)
Remove(m, k) == [x \in (DOMAIN m) \ {k} |-> m[x]]

\* ------------------------------------------------------------- encoding/gob
\* A byte stream: either one gob cannot decode, or the encoding of a map, which
\* holds one (key, Object, Expiration) entry per key, in no order.
NoBytes == [ok |-> FALSE, entries |-> {}]

\* enc.Encode(&c.items)
gobEncode(m) ==
    [ok |-> TRUE, entries |-> {<<k, m[k].Object, m[k].Expiration>> : k \in DOMAIN m}]

\* dec.Decode(&items): the error and the decoded map.
gobDecode(s) ==
    IF ~s.ok THEN [err |-> "DecodeError", items |-> EmptyMap]
    ELSE [err |-> "nil",
          items |-> [k \in {e[1] : e \in s.entries} |->
                        LET e == CHOOSE e \in s.entries : e[1] = k
                        IN  Item(e[2], e[3])]]

\* gob.Register(v.Object) panics on a nil interface value.
gobRegisterPanics(m) == \E k \in DOMAIN m : m[k].Object = NoValue

\* The items a stream handed to Load may hold, one of them with a nil Object,
\* and the streams themselves.
LoadItems == {Item("z", 2), Item(NoValue, 0)}
LoadMaps == UNION {[D -> LoadItems] : D \in SUBSET Keys}
LoadStreams == {NoBytes} \cup {gobEncode(m) : m \in LoadMaps}

\* A file: whether it exists, and the bytes it holds.
NoFile == [exists |-> FALSE, bytes |-> NoBytes]

VARIABLES
    items,              \* Cache.items
    defaultExpiration,  \* Cache.defaultExpiration
    mu,                 \* Cache.mu: the goroutine holding Lock, those holding RLock
    now,                \* the clock, time.Now().UnixNano()
    pc,                 \* where each caller goroutine is
    loc,                \* each caller's arguments, locals and last result
    gcpc,               \* where the gcLoop goroutine is
    gcNow,              \* DeleteExpired's local now
    tickC,              \* ticker.C holds a tick (a channel of capacity one)
    wire,               \* the bytes the last Save wrote to its io.Writer
    stamp,              \* history: when and with what duration Set stored a key
    file,               \* the file at the path SaveToFile and LoadFile are given
    hist                \* history: the map the last Save encoded; the Cache is a new one

vars == <<items, defaultExpiration, mu, now, pc, loc, gcpc, gcNow, tickC, wire, stamp,
          file, hist>>

NoOne == "none"
GC == "gc"

NoStamp == [t |-> 0, d |-> 0]

Idle == [op |-> "none", k |-> NoKey, v |-> NoValue, d |-> 0, e |-> 0, t |-> 0,
         dec |-> EmptyMap, pending |-> EmptyMap, err |-> "none", rv |-> NoValue,
         found |-> FALSE, n |-> 0]

\* ------------------------------------------------------------- Item.Expired
Expired(item, t) ==
    IF item.Expiration = 0 THEN FALSE ELSE t > item.Expiration

\* Cache.get: (value, found)
get(m, k, t) ==
    IF k \notin DOMAIN m THEN [v |-> NoValue, found |-> FALSE]
    ELSE IF Expired(m[k], t) THEN [v |-> NoValue, found |-> FALSE]
    ELSE [v |-> m[k].Object, found |-> TRUE]

\* Cache.Set, lines 77-83: the duration in effect and the expiration stored.
EffectiveDuration(d) == IF d = DefaultExpiration THEN defaultExpiration ELSE d

SetExpiration(d, t) ==
    IF EffectiveDuration(d) > 0 THEN Wrap(t + EffectiveDuration(d)) ELSE 0

\* ------------------------------------------------------------- sync.RWMutex
\* Lock waits until no goroutine holds the lock, for reading or for writing,
\* the caller itself included: the lock is not reentrant. RLock waits until no
\* goroutine holds it for writing. Unlock and RUnlock give it back.
LockFree == mu.writer = NoOne /\ mu.readers = {}
RLockFree == mu.writer = NoOne
Locked(p) == [mu EXCEPT !.writer = p]
Unlocked == [mu EXCEPT !.writer = NoOne]
RLocked(p) == [mu EXCEPT !.readers = @ \cup {p}]
RUnlocked(p) == [mu EXCEPT !.readers = @ \ {p}]

\* ------------------------------------------------------------- NewCache
Init ==
    /\ items = EmptyMap
    /\ defaultExpiration \in DefaultExpirations
    /\ mu = [writer |-> NoOne, readers |-> {}]
    /\ now = StartTime
    /\ pc = [p \in Procs |-> "idle"]
    /\ loc = [p \in Procs |-> Idle]
    /\ gcpc = "select"
    /\ gcNow = 0
    /\ tickC = FALSE
    /\ wire = NoBytes
    /\ stamp = [k \in Keys |-> NoStamp]
    /\ file = NoFile
    /\ hist = [saved |-> EmptyMap, fresh |-> FALSE]

\* A goroutine makes its call: each caller goroutine makes one call.
Call(p, label, frame) ==
    /\ pc[p] = "idle"
    /\ pc' = [pc EXCEPT ![p] = label]
    /\ loc' = [loc EXCEPT ![p] = frame]

\* A call returns: the locals go, the operation, its key and its results stay.
Return(p, res) ==
    /\ pc' = [pc EXCEPT ![p] = "done"]
    /\ loc' = [loc EXCEPT ![p] = [res EXCEPT !.v = NoValue, !.d = 0, !.e = 0, !.t = 0,
                                             !.dec = EmptyMap, !.pending = EmptyMap]]

\* ------------------------------------------------------------- Cache.Set
\* Lines 77-83: the expiration is computed before the lock is asked for.
CallSet(p) ==
    \E k \in Keys, v \in {ValueOf(p)}, d \in Durations :
        /\ Call(p, "set_lock", [Idle EXCEPT !.op = "Set", !.k = k, !.v = v, !.d = d,
                                            !.e = SetExpiration(d, now), !.t = now])
        /\ UNCHANGED <<items, defaultExpiration, mu, now, gcpc, gcNow, tickC, stamp, wire, file, hist>>

\* Line 84: c.mu.Lock(). Also the Lock of the Set that Add and Replace call.
SetLock(p) ==
    /\ pc[p] = "set_lock"
    /\ LockFree
    /\ mu' = Locked(p)
    /\ pc' = [pc EXCEPT ![p] = "set_write"]
    /\ UNCHANGED <<items, defaultExpiration, now, loc, gcpc, gcNow, tickC, stamp, wire, file, hist>>

\* Lines 85-89: the write and the deferred Unlock; then Set returns, to its
\* caller when it was called by Add or Replace (lines 114-115, 142-143).
SetWrite(p) ==
    /\ pc[p] = "set_write"
    /\ items' = Put(items, loc[p].k, Item(loc[p].v, loc[p].e))
    /\ stamp' = [stamp EXCEPT ![loc[p].k] =
                    IF EffectiveDuration(loc[p].d) > 0
                    THEN [t |-> loc[p].t, d |-> EffectiveDuration(loc[p].d)]
                    ELSE NoStamp]
    /\ mu' = Unlocked
    /\ Return(p, [loc[p] EXCEPT !.err = "nil"])
    /\ UNCHANGED <<defaultExpiration, now, gcpc, gcNow, tickC, wire, file, hist>>

\* ------------------------------------------------------------- Cache.Add
CallAdd(p) ==
    \E k \in Keys, v \in {ValueOf(p)}, d \in Durations :
        /\ Call(p, "add_lock", [Idle EXCEPT !.op = "Add", !.k = k, !.v = v, !.d = d])
        /\ UNCHANGED <<items, defaultExpiration, mu, now, gcpc, gcNow, tickC, stamp, wire, file, hist>>

\* Line 107: c.mu.Lock()
AddLock(p) ==
    /\ pc[p] = "add_lock"
    /\ LockFree
    /\ mu' = Locked(p)
    /\ pc' = [pc EXCEPT ![p] = "add_check"]
    /\ UNCHANGED <<items, defaultExpiration, now, loc, gcpc, gcNow, tickC, stamp, wire, file, hist>>

\* AddCheck with the test of Replace: the error when the key is not found.
AddCheckInverted(p) ==
    /\ pc[p] = "add_check"
    /\ IF ~get(items, loc[p].k, now).found
       THEN /\ mu' = Unlocked
            /\ Return(p, [loc[p] EXCEPT !.err = "DuplicateKey"])
       ELSE /\ mu' = mu
            /\ pc' = [pc EXCEPT ![p] = "set_lock"]
            /\ loc' = [loc EXCEPT ![p].e = SetExpiration(loc[p].d, now), ![p].t = now]
    /\ UNCHANGED <<items, defaultExpiration, now, gcpc, gcNow, tickC, stamp, wire, file, hist>>

\* AddCheck that gives the lock back before it calls Set.
AddCheckUnlocks(p) ==
    /\ pc[p] = "add_check"
    /\ mu' = Unlocked
    /\ IF get(items, loc[p].k, now).found
       THEN Return(p, [loc[p] EXCEPT !.err = "DuplicateKey"])
       ELSE /\ pc' = [pc EXCEPT ![p] = "set_lock"]
            /\ loc' = [loc EXCEPT ![p].e = SetExpiration(loc[p].d, now), ![p].t = now]
    /\ UNCHANGED <<items, defaultExpiration, now, gcpc, gcNow, tickC, stamp, wire, file, hist>>

\* Lines 108-113: found: Unlock and the error; not found: c.Set(k, v, d) is
\* called with the lock still held, and computes its expiration (lines 77-83).
AddCheck(p) ==
    /\ pc[p] = "add_check"
    /\ IF get(items, loc[p].k, now).found
       THEN /\ mu' = Unlocked
            /\ Return(p, [loc[p] EXCEPT !.err = "DuplicateKey"])
       ELSE /\ mu' = mu
            /\ pc' = [pc EXCEPT ![p] = "set_lock"]
            /\ loc' = [loc EXCEPT ![p].e = SetExpiration(loc[p].d, now), ![p].t = now]
    /\ UNCHANGED <<items, defaultExpiration, now, gcpc, gcNow, tickC, stamp, wire, file, hist>>

\* ------------------------------------------------------------- Cache.Replace
CallReplace(p) ==
    \E k \in Keys, v \in {ValueOf(p)}, d \in Durations :
        /\ Call(p, "replace_lock", [Idle EXCEPT !.op = "Replace", !.k = k, !.v = v, !.d = d])
        /\ UNCHANGED <<items, defaultExpiration, mu, now, gcpc, gcNow, tickC, stamp, wire, file, hist>>

\* Line 135: c.mu.Lock()
ReplaceLock(p) ==
    /\ pc[p] = "replace_lock"
    /\ LockFree
    /\ mu' = Locked(p)
    /\ pc' = [pc EXCEPT ![p] = "replace_check"]
    /\ UNCHANGED <<items, defaultExpiration, now, loc, gcpc, gcNow, tickC, stamp, wire, file, hist>>

\* ReplaceCheck that returns the MissingKey error without its Unlock.
ReplaceCheckKeepsLock(p) ==
    /\ pc[p] = "replace_check"
    /\ mu' = mu
    /\ IF ~get(items, loc[p].k, now).found
       THEN Return(p, [loc[p] EXCEPT !.err = "MissingKey"])
       ELSE /\ pc' = [pc EXCEPT ![p] = "set_lock"]
            /\ loc' = [loc EXCEPT ![p].e = SetExpiration(loc[p].d, now), ![p].t = now]
    /\ UNCHANGED <<items, defaultExpiration, now, gcpc, gcNow, tickC, stamp, wire, file, hist>>

\* ReplaceCheck that looks the key up in the map and does not ask whether the
\* item is expired.
ReplaceCheckPresence(p) ==
    /\ pc[p] = "replace_check"
    /\ IF loc[p].k \notin DOMAIN items
       THEN /\ mu' = Unlocked
            /\ Return(p, [loc[p] EXCEPT !.err = "MissingKey"])
       ELSE /\ mu' = mu
            /\ pc' = [pc EXCEPT ![p] = "set_lock"]
            /\ loc' = [loc EXCEPT ![p].e = SetExpiration(loc[p].d, now), ![p].t = now]
    /\ UNCHANGED <<items, defaultExpiration, now, gcpc, gcNow, tickC, stamp, wire, file, hist>>

\* Lines 136-141: not found: Unlock and the error; found: c.Set(k, v, d) is
\* called with the lock still held.
ReplaceCheck(p) ==
    /\ pc[p] = "replace_check"
    /\ IF ~get(items, loc[p].k, now).found
       THEN /\ mu' = Unlocked
            /\ Return(p, [loc[p] EXCEPT !.err = "MissingKey"])
       ELSE /\ mu' = mu
            /\ pc' = [pc EXCEPT ![p] = "set_lock"]
            /\ loc' = [loc EXCEPT ![p].e = SetExpiration(loc[p].d, now), ![p].t = now]
    /\ UNCHANGED <<items, defaultExpiration, now, gcpc, gcNow, tickC, stamp, wire, file, hist>>

\* ------------------------------------------------------------- Cache.Delete
CallDelete(p) ==
    \E k \in Keys :
        /\ Call(p, "delete_lock", [Idle EXCEPT !.op = "Delete", !.k = k])
        /\ UNCHANGED <<items, defaultExpiration, mu, now, gcpc, gcNow, tickC, stamp, wire, file, hist>>

DeleteLock(p) ==
    /\ pc[p] = "delete_lock"
    /\ LockFree
    /\ mu' = Locked(p)
    /\ pc' = [pc EXCEPT ![p] = "delete_write"]
    /\ UNCHANGED <<items, defaultExpiration, now, loc, gcpc, gcNow, tickC, stamp, wire, file, hist>>

DeleteWrite(p) ==
    /\ pc[p] = "delete_write"
    /\ items' = Remove(items, loc[p].k)
    /\ stamp' = [stamp EXCEPT ![loc[p].k] = NoStamp]
    /\ mu' = Unlocked
    /\ Return(p, [loc[p] EXCEPT !.err = "nil"])
    /\ UNCHANGED <<defaultExpiration, now, gcpc, gcNow, tickC, wire, file, hist>>

\* ------------------------------------------------------------- Cache.Flush
CallFlush(p) ==
    /\ Call(p, "flush_lock", [Idle EXCEPT !.op = "Flush"])
    /\ UNCHANGED <<items, defaultExpiration, mu, now, gcpc, gcNow, tickC, stamp, wire, file, hist>>

FlushLock(p) ==
    /\ pc[p] = "flush_lock"
    /\ LockFree
    /\ mu' = Locked(p)
    /\ pc' = [pc EXCEPT ![p] = "flush_write"]
    /\ UNCHANGED <<items, defaultExpiration, now, loc, gcpc, gcNow, tickC, stamp, wire, file, hist>>

FlushWrite(p) ==
    /\ pc[p] = "flush_write"
    /\ items' = EmptyMap
    /\ stamp' = [k \in Keys |-> NoStamp]
    /\ mu' = Unlocked
    /\ Return(p, [loc[p] EXCEPT !.err = "nil"])
    /\ UNCHANGED <<defaultExpiration, now, gcpc, gcNow, tickC, wire, file, hist>>

\* ------------------------------------------------------------- Cache.Count
CallCount(p) ==
    /\ Call(p, "count_rlock", [Idle EXCEPT !.op = "Count"])
    /\ UNCHANGED <<items, defaultExpiration, mu, now, gcpc, gcNow, tickC, stamp, wire, file, hist>>

CountRLock(p) ==
    /\ pc[p] = "count_rlock"
    /\ RLockFree
    /\ mu' = RLocked(p)
    /\ pc' = [pc EXCEPT ![p] = "count_read"]
    /\ UNCHANGED <<items, defaultExpiration, now, loc, gcpc, gcNow, tickC, stamp, wire, file, hist>>

CountRead(p) ==
    /\ pc[p] = "count_read"
    /\ mu' = RUnlocked(p)
    /\ Return(p, [loc[p] EXCEPT !.err = "nil", !.n = Cardinality(DOMAIN items)])
    /\ UNCHANGED <<items, defaultExpiration, now, gcpc, gcNow, tickC, stamp, wire, file, hist>>

\* ------------------------------------------------------------- Cache.Get
CallGet(p) ==
    \E k \in Keys :
        /\ Call(p, "get_rlock", [Idle EXCEPT !.op = "Get", !.k = k])
        /\ UNCHANGED <<items, defaultExpiration, mu, now, gcpc, gcNow, tickC, stamp, wire, file, hist>>

GetRLock(p) ==
    /\ pc[p] = "get_rlock"
    /\ RLockFree
    /\ mu' = RLocked(p)
    /\ pc' = [pc EXCEPT ![p] = "get_read"]
    /\ UNCHANGED <<items, defaultExpiration, now, loc, gcpc, gcNow, tickC, stamp, wire, file, hist>>

\* GetRead that deletes the item it finds expired.
GetReadEvicts(p) ==
    /\ pc[p] = "get_read"
    /\ mu' = RUnlocked(p)
    /\ items' = IF loc[p].k \in DOMAIN items /\ Expired(items[loc[p].k], now)
                THEN Remove(items, loc[p].k) ELSE items
    /\ Return(p, [loc[p] EXCEPT !.err = "nil",
                                !.rv = get(items, loc[p].k, now).v,
                                !.found = get(items, loc[p].k, now).found])
    /\ UNCHANGED <<defaultExpiration, now, gcpc, gcNow, tickC, stamp, wire, file, hist>>

\* Lines 123-130 and the deferred RUnlock.
GetRead(p) ==
    /\ pc[p] = "get_read"
    /\ mu' = RUnlocked(p)
    /\ Return(p, [loc[p] EXCEPT !.err = "nil",
                                !.rv = get(items, loc[p].k, now).v,
                                !.found = get(items, loc[p].k, now).found])
    /\ UNCHANGED <<items, defaultExpiration, now, gcpc, gcNow, tickC, stamp, wire, file, hist>>

\* ------------------------------------------------------------- Cache.Save
CallSave(p) ==
    /\ Call(p, "save_rlock", [Idle EXCEPT !.op = "Save"])
    /\ UNCHANGED <<items, defaultExpiration, mu, now, gcpc, gcNow, tickC, stamp, wire, file, hist>>

\* SaveRLock that does not wait for the goroutine that holds the lock.
SaveRLockNoWait(p) ==
    /\ pc[p] = "save_rlock"
    /\ mu' = RLocked(p)
    /\ pc' = [pc EXCEPT ![p] = "save_encode"]
    /\ UNCHANGED <<items, defaultExpiration, now, loc, gcpc, gcNow, tickC, stamp, wire, file, hist>>

\* Line 160: c.mu.RLock()
SaveRLock(p) ==
    /\ pc[p] = "save_rlock"
    /\ RLockFree
    /\ mu' = RLocked(p)
    /\ pc' = [pc EXCEPT ![p] = "save_encode"]
    /\ UNCHANGED <<items, defaultExpiration, now, loc, gcpc, gcNow, tickC, stamp, wire, file, hist>>

\* SaveEncode that leaves out the items that are expired and not yet swept.
SaveEncodeSkipsExpired(p) ==
    /\ pc[p] = "save_encode"
    /\ mu' = RUnlocked(p)
    /\ IF gobRegisterPanics(items)
       THEN /\ wire' = wire
            /\ hist' = hist
            /\ Return(p, [loc[p] EXCEPT !.err = "EncodeError"])
       ELSE /\ wire' = gobEncode([k \in {x \in DOMAIN items : ~Expired(items[x], now)}
                                     |-> items[k]])
            /\ hist' = [hist EXCEPT !.saved = items]
            /\ Return(p, [loc[p] EXCEPT !.err = "nil"])
    /\ UNCHANGED <<items, defaultExpiration, now, gcpc, gcNow, tickC, stamp, file>>

\* Lines 162-166 and the deferred calls: the types are registered, the map is
\* encoded; a panic is recovered into an error; the read lock is released.
SaveEncode(p) ==
    /\ pc[p] = "save_encode"
    /\ mu' = RUnlocked(p)
    /\ IF gobRegisterPanics(items)
       THEN /\ wire' = wire
            /\ hist' = hist
            /\ Return(p, [loc[p] EXCEPT !.err = "EncodeError"])
       ELSE /\ wire' = gobEncode(items)
            /\ hist' = [hist EXCEPT !.saved = items]
            /\ Return(p, [loc[p] EXCEPT !.err = "nil"])
    /\ UNCHANGED <<items, defaultExpiration, now, gcpc, gcNow, tickC, stamp, file>>

\* ------------------------------------------------------------- Cache.Load
\* Lines 181-184: the stream is decoded, into the local items, before the lock
\* is asked for; on an error Load returns it at once (line 195).
LoadDecode(p, op, s) ==
    IF gobDecode(s).err # "nil"
    THEN /\ pc[p] = "idle"
         /\ Return(p, [Idle EXCEPT !.op = op, !.err = gobDecode(s).err])
    ELSE Call(p, "load_lock", [Idle EXCEPT !.op = op, !.dec = gobDecode(s).items,
                                           !.pending = gobDecode(s).items])

\* CallLoad that takes the lock before it decodes and keeps it on the error.
CallLoadLocksFirst(p) ==
    \E s \in LoadStreams \cup {wire} :
        /\ LoadDecode(p, "Load", s)
        /\ mu' = IF gobDecode(s).err # "nil" /\ LockFree THEN Locked(p) ELSE mu
        /\ UNCHANGED <<items, defaultExpiration, now, gcpc, gcNow, tickC, stamp, wire, file, hist>>

CallLoad(p) ==
    \E s \in LoadStreams \cup {wire} :
        /\ LoadDecode(p, "Load", s)
        /\ UNCHANGED <<items, defaultExpiration, mu, now, gcpc, gcNow, tickC, stamp, wire, file, hist>>

\* Line 185: c.mu.Lock()
LoadLock(p) ==
    /\ pc[p] = "load_lock"
    /\ LockFree
    /\ mu' = Locked(p)
    /\ pc' = [pc EXCEPT ![p] = "load_merge"]
    /\ UNCHANGED <<items, defaultExpiration, now, loc, gcpc, gcNow, tickC, stamp, wire, file, hist>>

\* Lines 187-193, one turn of the loop: range yields the decoded keys in any
\* order; ov.Expired() reads the clock at that moment.
\* A merge that stores the decoded item whatever the map holds.
MergeItemOverwrites(m, k, v, t) == Put(m, k, v)

MergeItem(m, k, v, t) ==
    IF k \notin DOMAIN m \/ Expired(m[k], t) THEN Put(m, k, v) ELSE m

LoadMerge(p) ==
    /\ pc[p] = "load_merge"
    /\ \E k \in DOMAIN loc[p].pending :
        /\ items' = MergeItem(items, k, loc[p].pending[k], now)
        /\ stamp' = IF items' = items THEN stamp ELSE [stamp EXCEPT ![k] = NoStamp]
        /\ loc' = [loc EXCEPT ![p].pending = Remove(@, k), ![p].k = k]
    /\ UNCHANGED <<defaultExpiration, mu, now, pc, gcpc, gcNow, tickC, wire, file, hist>>

\* The loop is over: the deferred Unlock, and Load returns nil (line 195).
LoadReturn(p) ==
    /\ pc[p] = "load_merge"
    /\ DOMAIN loc[p].pending = {}
    /\ mu' = Unlocked
    /\ Return(p, [loc[p] EXCEPT !.err = "nil", !.k = NoKey])
    /\ UNCHANGED <<items, defaultExpiration, now, gcpc, gcNow, tickC, stamp, wire, file, hist>>

\* ------------------------------------------------------------- Cache.SaveToFile
\* Lines 171-176: os.Create makes the file, or empties the one there is, and
\* f.Close() closes it: nothing is written to it, Save is not called.
CallSaveToFile(p) ==
    /\ file' = [exists |-> TRUE, bytes |-> NoBytes]
    /\ pc[p] = "idle"
    /\ Return(p, [Idle EXCEPT !.op = "SaveToFile", !.err = "nil"])
    /\ UNCHANGED <<items, defaultExpiration, mu, now, gcpc, gcNow, tickC, stamp, wire, hist>>

\* ------------------------------------------------------------- Cache.LoadFile
\* Lines 200-208: os.Open fails when there is no file; otherwise Load reads
\* the file, the file is closed, and the error of Load is returned.
CallLoadFile(p) ==
    /\ IF ~file.exists
       THEN /\ pc[p] = "idle"
            /\ Return(p, [Idle EXCEPT !.op = "LoadFile", !.err = "OpenError"])
       ELSE LoadDecode(p, "LoadFile", file.bytes)
    /\ UNCHANGED <<items, defaultExpiration, mu, now, gcpc, gcNow, tickC, stamp, wire, file, hist>>

\* ------------------------------------------------------------- Cache.StopGc
\* Line 226: c.stopGc <- true, a send on an unbuffered channel.
\* CallStopGc with a send that does not wait for a receiver.
CallStopGcNoWait(p) ==
    /\ pc[p] = "idle"
    /\ Return(p, [Idle EXCEPT !.op = "StopGc", !.err = "nil"])
    /\ UNCHANGED <<items, defaultExpiration, mu, now, gcpc, gcNow, tickC, stamp, wire, file, hist>>

CallStopGc(p) ==
    /\ Call(p, "stop_send", [Idle EXCEPT !.op = "StopGc"])
    /\ UNCHANGED <<items, defaultExpiration, mu, now, gcpc, gcNow, tickC, stamp, wire, file, hist>>

\* ------------------------------------------------------------- Cache.gcLoop
\* Lines 46-48: the select receives from stopGc, which completes the send of
\* the caller in StopGc; the ticker is stopped and the loop returns.
\* GcStop without the return: the loop goes back to its select.
GcStopKeepsLooping(p) ==
    /\ gcpc = "select"
    /\ pc[p] = "stop_send"
    /\ gcpc' = "select"
    /\ Return(p, [loc[p] EXCEPT !.err = "nil"])
    /\ UNCHANGED <<items, defaultExpiration, mu, now, gcNow, tickC, stamp, wire, file, hist>>

GcStop(p) ==
    /\ gcpc = "select"
    /\ pc[p] = "stop_send"
    /\ gcpc' = "stopped"
    /\ Return(p, [loc[p] EXCEPT !.err = "nil"])
    /\ UNCHANGED <<items, defaultExpiration, mu, now, gcNow, tickC, stamp, wire, file, hist>>

\* Lines 44-45 and 63: the select receives a tick and calls DeleteExpired,
\* which reads the clock before it asks for the lock.
GcTick ==
    /\ gcpc = "select"
    /\ tickC
    /\ tickC' = FALSE
    /\ gcNow' = now
    /\ gcpc' = "lock"
    /\ UNCHANGED <<items, defaultExpiration, mu, now, pc, loc, stamp, wire, file, hist>>

\* Line 64: c.mu.Lock()
GcLock ==
    /\ gcpc = "lock"
    /\ LockFree
    /\ mu' = Locked(GC)
    /\ gcpc' = "scan"
    /\ UNCHANGED <<items, defaultExpiration, now, pc, loc, gcNow, tickC, stamp, wire, file, hist>>

\* DeleteExpired that also removes the item whose expiration is the sampled
\* clock itself.
DeleteExpiredAtClock(m, t) ==
    [k \in {x \in DOMAIN m : ~(m[x].Expiration > 0 /\ t >= m[x].Expiration)} |-> m[k]]

\* DeleteExpired without the test Expiration > 0.
DeleteExpiredAnyPast(m, t) ==
    [k \in {x \in DOMAIN m : ~(t > m[x].Expiration)} |-> m[k]]

\* Lines 67-72: the items the loop of DeleteExpired keeps.
DeleteExpired(m, t) ==
    [k \in {x \in DOMAIN m : ~(m[x].Expiration > 0 /\ t > m[x].Expiration)} |-> m[k]]

\* Lines 65-73: the scan under the lock, and the deferred Unlock.
GcScan ==
    /\ gcpc = "scan"
    /\ items' = DeleteExpired(items, gcNow)
    /\ mu' = Unlocked
    /\ gcpc' = "select"
    /\ gcNow' = 0
    /\ UNCHANGED <<defaultExpiration, now, pc, loc, tickC, wire, stamp, file, hist>>

\* ------------------------------------------------------------- the clock
\* Time passes; the ticker puts a tick in ticker.C every gcInterval, unless it
\* was stopped, and drops the tick when the channel is full.
Tick ==
    /\ now < MaxTime
    /\ now' = now + 1
    /\ tickC' = IF gcpc # "stopped" /\ (now' - StartTime) % GcInterval = 0
                THEN TRUE ELSE tickC
    /\ UNCHANGED <<items, defaultExpiration, mu, pc, loc, gcpc, gcNow, stamp, wire, file, hist>>

Next ==
    \/ Tick
    \/ GcTick
    \/ GcLock
    \/ GcScan
    \/ \E p \in Procs :
        \/ CallSet(p) \/ SetLock(p) \/ SetWrite(p)
        \/ CallGet(p) \/ GetRLock(p) \/ GetRead(p)
        \/ CallAdd(p) \/ AddLock(p) \/ AddCheck(p)
        \/ CallReplace(p) \/ ReplaceLock(p) \/ ReplaceCheck(p)
        \/ CallDelete(p) \/ DeleteLock(p) \/ DeleteWrite(p)
        \/ CallFlush(p) \/ FlushLock(p) \/ FlushWrite(p)
        \/ CallCount(p) \/ CountRLock(p) \/ CountRead(p)
        \/ CallSave(p) \/ SaveRLock(p) \/ SaveEncode(p)
        \/ CallLoad(p) \/ LoadLock(p) \/ LoadMerge(p) \/ LoadReturn(p)
        \/ CallSaveToFile(p) \/ CallLoadFile(p)
        \/ CallStopGc(p) \/ GcStop(p)

Spec == Init /\ [][Next]_vars

\* The steps of a caller goroutine after its call has started, and of gcLoop.
Step(p) ==
    \/ SetLock(p) \/ SetWrite(p) \/ GetRLock(p) \/ GetRead(p)
    \/ AddLock(p) \/ AddCheck(p) \/ ReplaceLock(p) \/ ReplaceCheck(p)
    \/ DeleteLock(p) \/ DeleteWrite(p) \/ FlushLock(p) \/ FlushWrite(p)
    \/ CountRLock(p) \/ CountRead(p) \/ SaveRLock(p) \/ SaveEncode(p)
    \/ LoadLock(p) \/ LoadMerge(p) \/ LoadReturn(p) \/ GcStop(p)

GcStep == GcTick \/ GcLock \/ GcScan

\* The Go scheduler runs every goroutine that can run: a goroutine whose next
\* step stays possible takes it.
FairSpec == Spec /\ WF_vars(GcStep) /\ \A p \in Procs : WF_vars(Step(p))

\* ------------------------------------------------------------- Save and Load
\* A second specification, for what Save and SaveToFile write and what Load
\* and LoadFile make of it in another Cache: it starts from a Cache that holds
\* any map of items, live, expired and not yet swept, without expiration, with
\* a nil Object, and from a path with no file or with a file that holds an
\* earlier snapshot; the callers save, a new Cache is made, the callers load.
CodecItems == {Item("x", StartTime), Item("y", 0), Item("y", MinInt), Item(NoValue, 0)}
CodecMaps == UNION {[D -> CodecItems] : D \in SUBSET Keys}
PriorFile == [exists |-> TRUE, bytes |-> gobEncode([k \in {"a"} |-> Item("z", 2)])]

CodecInit ==
    /\ items \in CodecMaps
    /\ defaultExpiration = DefaultExpiration
    /\ mu = [writer |-> NoOne, readers |-> {}]
    /\ now = StartTime
    /\ pc = [p \in Procs |-> "idle"]
    /\ loc = [p \in Procs |-> Idle]
    /\ gcpc = "select"
    /\ gcNow = 0
    /\ tickC = FALSE
    /\ wire = NoBytes
    /\ stamp = [k \in Keys |-> NoStamp]
    /\ file \in {NoFile, PriorFile}
    /\ hist = [saved |-> EmptyMap, fresh |-> FALSE]

\* NewCache, called when no call of the first Cache is running: from here on
\* the variables of the Cache are those of the new one; its map is empty, its
\* lock is free, its gcLoop and its ticker have just started.
NewStore ==
    /\ ~hist.fresh
    /\ \A p \in Procs : pc[p] \in {"idle", "done"}
    /\ items' = EmptyMap
    /\ mu' = [writer |-> NoOne, readers |-> {}]
    /\ gcpc' = "select"
    /\ gcNow' = 0
    /\ tickC' = FALSE
    /\ stamp' = [k \in Keys |-> NoStamp]
    /\ hist' = [hist EXCEPT !.fresh = TRUE]
    /\ UNCHANGED <<defaultExpiration, now, pc, loc, wire, file>>

CodecNext ==
    \/ Tick
    \/ GcTick
    \/ GcLock
    \/ GcScan
    \/ NewStore
    \/ \E p \in Procs :
        \/ CallSave(p) \/ SaveRLock(p) \/ SaveEncode(p)
        \/ CallLoad(p) \/ LoadLock(p) \/ LoadMerge(p) \/ LoadReturn(p)
        \/ CallSaveToFile(p) \/ CallLoadFile(p)

CodecSpec == CodecInit /\ [][CodecNext]_vars

\* ================================================================ claims

\* The call of p is the Set that Add or Replace made after its check.
Nested(p) == loc[p].op \in {"Add", "Replace"} /\ pc[p] \in {"set_lock", "set_write"}

\* C1: an Add whose check found no live item for its key (the key is absent or
\* its item is expired) returns, without an error, and its item is then in the
\* map to be read.
C1_AddOnAbsentReturns ==
    \A p \in Procs :
        (loc[p].op = "Add" /\ pc[p] = "set_lock")
            ~> (pc[p] = "done" /\ loc[p].err = "nil"
                /\ loc[p].k \in DOMAIN items /\ items[loc[p].k].Object = ValueOf(p))

\* C2: a Replace whose check found a live item for its key returns, without an
\* error, and the key then holds the new value.
C2_ReplaceOnLiveReturns ==
    \A p \in Procs :
        (loc[p].op = "Replace" /\ pc[p] = "set_lock")
            ~> (pc[p] = "done" /\ loc[p].err = "nil"
                /\ loc[p].k \in DOMAIN items /\ items[loc[p].k].Object = ValueOf(p))

\* C3: every call of Set, Get, Add, Replace, Delete, Count, Flush, Save and
\* Load that has started returns; only the stop handshake may wait for ever.
C3_EveryCallReturns ==
    \A p \in Procs :
        (pc[p] \notin {"idle", "done", "stop_send"}) ~> (pc[p] = "done")

\* C4: when Add's check finds a live item for its key, Add returns the
\* DuplicateKey error and the map is what it was: the item of the key and every
\* other item are unchanged.
C4_AddOnLiveFails ==
    [][\A p \in Procs :
        (pc[p] = "add_check" /\ pc'[p] # "add_check"
         /\ get(items, loc[p].k, now).found)
            => (pc'[p] = "done" /\ loc'[p].err = "DuplicateKey" /\ items' = items)]_vars

\* C4, reached: an Add has returned DuplicateKey for a key that holds the live
\* item another goroutine stored.
C4_Witness ==
    \E p \in Procs :
        /\ pc[p] = "done" /\ loc[p].op = "Add" /\ loc[p].err = "DuplicateKey"
        /\ loc[p].k \in DOMAIN items
        /\ items[loc[p].k].Object # ValueOf(p)
        /\ ~Expired(items[loc[p].k], now)

\* C5: when Replace's check finds no live item for its key (the key is absent,
\* or its item is expired), Replace returns the MissingKey error and the map is
\* what it was: nothing is created, an expired item stays as it was.
C5_ReplaceOnMissingFails ==
    [][\A p \in Procs :
        (pc[p] = "replace_check" /\ pc'[p] # "replace_check"
         /\ (loc[p].k \notin DOMAIN items \/ Expired(items[loc[p].k], now)))
            => (pc'[p] = "done" /\ loc'[p].err = "MissingKey" /\ items' = items)]_vars

\* C5, reached: a Replace has returned MissingKey for a key whose expired item
\* is still in the map.
C5_Witness ==
    \E p \in Procs :
        /\ pc[p] = "done" /\ loc[p].op = "Replace" /\ loc[p].err = "MissingKey"
        /\ loc[p].k \in DOMAIN items
        /\ Expired(items[loc[p].k], now)

\* C6: between the check of an Add or Replace and its write the lock is not
\* released: no other goroutine is between its own check and write, the map
\* changes by nothing but that write, and an Add that returns success has
\* written over no live item, so that of the concurrent Adds of a key without a
\* live item at most one succeeds.
C6_CheckAndWriteAtomic ==
    [][\A p \in Procs :
        /\ Nested(p) => mu.writer = p
        /\ Nested(p) => \A q \in Procs \ {p} : ~Nested(q)
        /\ Nested(p) => (items' = items \/ (pc[p] = "set_write" /\ pc'[p] = "done"))
        /\ (loc[p].op = "Add" /\ pc[p] = "set_write" /\ pc'[p] = "done")
                => ~get(items, loc[p].k, now).found]_vars

\* C6, reached: an Add has made its check and holds the lock while another Add
\* of the same key waits for it.
C6_Witness ==
    \E p \in Procs : \E q \in Procs \ {p} :
        /\ Nested(p) /\ loc[p].op = "Add"
        /\ pc[q] = "add_lock" /\ loc[q].k = loc[p].k

\* C7: an item Set stored at time t with a duration d > 0 in effect, and that
\* no caller has overwritten or deleted since, is found by Get, with its value,
\* at every time up to and including t + d, and is not found at any later time.
C7_FoundUntilExpiry ==
    [][\A p \in Procs :
        (pc[p] = "get_read" /\ pc'[p] = "done" /\ stamp[loc[p].k].d > 0)
            => /\ loc'[p].found <=> (now <= stamp[loc[p].k].t + stamp[loc[p].k].d)
               /\ loc'[p].found => (loc'[p].rv = items[loc[p].k].Object)]_vars

\* C8: Get does not change the map, whatever the key is (absent, live or
\* expired and not yet swept), and Count returns the number of items stored,
\* the expired ones included.
C8_GetLeavesMap ==
    [][\A p \in Procs :
        /\ (loc'[p].op = "Get" /\ pc'[p] # pc[p]) => items' = items
        /\ (pc[p] = "count_read" /\ pc'[p] = "done")
                => loc'[p].n = Cardinality(DOMAIN items')]_vars

\* C8, reached: a Get has reported an expired item as not found, and the item
\* is still stored.
C8_Witness ==
    \E p \in Procs :
        /\ pc[p] = "done" /\ loc[p].op = "Get" /\ ~loc[p].found
        /\ loc[p].k \in DOMAIN items
        /\ Expired(items[loc[p].k], now)

\* C9 as claimed: when an eviction pass completes, the map holds no item whose
\* expiration is in the past at that time, also when the pass waited for the
\* lock while time went on; and no pass removes an item with expiration 0.
C9_NoExpiredAfterPass ==
    [][(gcpc = "scan" /\ gcpc' = "select")
        => /\ \A k \in DOMAIN items' :
                ~(items'[k].Expiration > 0 /\ now > items'[k].Expiration)
           /\ \A k \in DOMAIN items :
                items[k].Expiration = 0 => (k \in DOMAIN items' /\ items'[k] = items[k])]_vars

\* C9 amended: when an eviction pass completes, the map holds no item whose
\* expiration is positive and earlier than the time the pass read the clock,
\* which it does before it asks for the lock; and no pass removes an item with
\* expiration 0.
C9_NoExpiredAtSample ==
    [][(gcpc = "scan" /\ gcpc' = "select")
        => /\ \A k \in DOMAIN items' :
                ~(items'[k].Expiration > 0 /\ gcNow > items'[k].Expiration)
           /\ \A k \in DOMAIN items :
                items[k].Expiration = 0 => (k \in DOMAIN items' /\ items'[k] = items[k])]_vars

\* C9, reached: a pass is over that removed an expired item and kept one with
\* expiration 0.
C9_Witness ==
    /\ gcpc = "select"
    /\ \E k \in Keys : k \notin DOMAIN items /\ stamp[k].d > 0
    /\ \E k \in DOMAIN items : items[k].Expiration = 0

\* C10: each turn of Load's merge loop handles one decoded key: a live item of
\* that key stays as it is, value and expiration; an absent or expired one is
\* replaced by the decoded item; every other key of the map is unchanged.
C10_LoadMerges ==
    [][\A p \in Procs :
        (pc[p] = "load_merge" /\ loc'[p].pending # loc[p].pending)
            => LET k == loc'[p].k
               IN  /\ k \in DOMAIN loc[p].pending
                   /\ k \in DOMAIN items'
                   /\ IF k \in DOMAIN items /\ ~Expired(items[k], now)
                      THEN items'[k] = items[k]
                      ELSE items'[k] = loc[p].pending[k]
                   /\ DOMAIN items' = DOMAIN items \cup {k}
                   /\ \A j \in DOMAIN items \ {k} : items'[j] = items[j]]_vars

\* C10, reached: a Load has merged both keys; the one it handled last holds the
\* live item a caller stored, the other holds the decoded item.
C10_Witness ==
    \E p \in Procs :
        /\ pc[p] = "load_merge" /\ DOMAIN loc[p].pending = {}
        /\ loc[p].k \in DOMAIN items
        /\ items[loc[p].k].Object \in Values
        /\ \E j \in DOMAIN items : items[j].Object = "z"

\* C11: a Load whose stream cannot be decoded returns the decode error at once:
\* the step that starts it ends it, the map is exactly what it was, and the
\* lock is as it was, not taken by Load.
C11_LoadDecodeFailure ==
    [][\A p \in Procs :
        (pc[p] = "idle" /\ loc'[p].op \in {"Load", "LoadFile"}
                        /\ loc'[p].err = "DecodeError")
            => (pc'[p] = "done" /\ items' = items /\ mu' = mu
                /\ loc'[p].dec = EmptyMap /\ loc'[p].pending = EmptyMap)]_vars

\* C11, reached: a Load has returned the decode error and the map still holds
\* the item a caller stored.
C11_Witness ==
    \E p \in Procs :
        /\ pc[p] = "done" /\ loc[p].op = "Load" /\ loc[p].err = "DecodeError"
        /\ \E k \in DOMAIN items : items[k].Object \in Values
        /\ LockFree

\* C12: when a Load into a new, empty Cache has read the stream a Save wrote,
\* the map of the new Cache is the map Save encoded: the same keys, each with
\* the same value and the same expiration, the expired items that were not yet
\* swept among them.
C12_SaveLoadRoundTrip ==
    [][\A p \in Procs :
        (pc[p] = "load_merge" /\ pc'[p] = "done" /\ hist.fresh
            /\ wire.ok /\ loc[p].dec = gobDecode(wire).items)
            => items' = hist.saved]_vars

\* C12, reached: such a Load has returned in the new Cache, whose map holds an
\* item that was expired when it was loaded beside one without expiration.
C12_Witness ==
    \E p \in Procs :
        /\ pc[p] = "done" /\ loc[p].op = "Load" /\ loc[p].err = "nil"
        /\ hist.fresh /\ wire = gobEncode(items) /\ items = hist.saved
        /\ \E k \in DOMAIN items : items[k].Expiration > 0 /\ now > items[k].Expiration
        /\ \E k \in DOMAIN items : items[k].Expiration = 0

\* C13: when SaveToFile returns without an error, the file at its path exists
\* and holds the snapshot Save writes: it decodes, without an error, to the
\* map of the Cache, which is what LoadFile then loads into a new Cache.
C13_SaveToFileWritesSnapshot ==
    [][\A p \in Procs :
        (pc[p] = "idle" /\ pc'[p] = "done"
            /\ loc'[p].op = "SaveToFile" /\ loc'[p].err = "nil")
            => (/\ file'.exists
                /\ gobDecode(file'.bytes).err = "nil"
                /\ gobDecode(file'.bytes).items = items)]_vars

\* A StopGc has returned: gcLoop has received the stop request.
StopReceived == \E p \in Procs : pc[p] = "done" /\ loc[p].op = "StopGc"

\* A caller goroutine is at the step in which it writes the map.
CallerWrites ==
    \E p \in Procs : pc[p] \in {"set_write", "delete_write", "flush_write", "load_merge"}

\* C14: once gcLoop has received the stop request it has stopped and stays
\* stopped: it samples no clock, takes no lock and runs no pass, the ticker
\* sends no tick, and an item leaves the map or changes only in the write of a
\* caller, however long it has been expired.
C14_StopIsFinal ==
    [][(StopReceived \/ gcpc = "stopped")
        => (/\ gcpc = "stopped" /\ gcpc' = "stopped"
            /\ gcNow' = gcNow /\ tickC' = tickC
            /\ mu.writer # GC /\ mu'.writer # GC
            /\ \A k \in DOMAIN items :
                  (k \in DOMAIN items' /\ items'[k] = items[k]) \/ CallerWrites)]_vars

\* C14, reached: gcLoop has stopped, the clock has passed the expiration of an
\* item, and the item is still in the map.
C14_Witness ==
    /\ StopReceived /\ gcpc = "stopped"
    /\ \E k \in DOMAIN items : items[k].Expiration > 0 /\ now > items[k].Expiration
    /\ \A p \in Procs : pc[p] = "done"

\* C15: a StopGc whose send finds gcLoop stopped stays at its send, in every
\* step; so of the calls of StopGc, one after the other or at the same time,
\* at most one ever returns.
C15_SecondStopBlocks ==
    [][/\ \A p \in Procs :
            (pc[p] = "stop_send" /\ gcpc = "stopped") => pc'[p] = "stop_send"
       /\ Cardinality({p \in Procs : pc'[p] = "done" /\ loc'[p].op = "StopGc"}) <= 1]_vars

\* C15, reached: one StopGc has returned, gcLoop has stopped, and another
\* StopGc is at its send.
C15_Witness ==
    \E p, q \in Procs :
        /\ pc[p] = "done" /\ loc[p].op = "StopGc"
        /\ pc[q] = "stop_send" /\ loc[q].op = "StopGc"
        /\ gcpc = "stopped"

\* C16: a StopGc that is the only one (the other caller has made its call, and
\* it is not a StopGc) and finds gcLoop running returns, and gcLoop stops, in
\* whatever state the call finds the pass of gcLoop: between two passes,
\* waiting for the lock, or scanning under it.
C16_FirstStopCompletes ==
    \A p \in Procs :
        (/\ pc[p] = "stop_send" /\ gcpc # "stopped"
         /\ \A q \in Procs \ {p} : pc[q] # "idle" /\ loc[q].op # "StopGc")
            ~> (pc[p] = "done" /\ gcpc = "stopped")

\* C17: the write of a Set stores, for its key, the expiration computed from
\* the duration in effect (the defaultExpiration of the Cache when the caller
\* passed DefaultExpiration) and the clock Set read: 0 when that duration is
\* not positive, the clock plus the duration when it is; and the expiration a
\* key holds changes only in the write of a caller.
C17_SetStoresExpiration ==
    [][/\ \A p \in Procs :
            (pc[p] = "set_write" /\ pc'[p] = "done")
                => LET d == EffectiveDuration(loc[p].d)
                   IN  /\ loc[p].k \in DOMAIN items'
                       /\ items'[loc[p].k].Expiration
                              = IF d > 0 THEN loc[p].t + d ELSE 0
       /\ \A k \in DOMAIN items \cap DOMAIN items' :
            items'[k].Expiration # items[k].Expiration => CallerWrites]_vars

\* The goroutines that are between the Lock and the Unlock of an operation
\* that writes the map (Set, Add, Replace, Delete, Flush, the merge of Load,
\* the pass of gcLoop), and those between the RLock and the RUnlock of one that
\* reads it (Get, Count, Save).
WritersInside ==
    {p \in Procs : \/ pc[p] \in {"set_write", "add_check", "replace_check",
                                  "delete_write", "flush_write", "load_merge"}
                   \/ Nested(p)}
        \cup (IF gcpc = "scan" THEN {GC} ELSE {})

ReadersInside == {p \in Procs : pc[p] \in {"get_read", "count_read", "save_encode"}}

\* C18: at most one goroutine is inside a writing operation, and while one is,
\* no goroutine is inside a reading one; readers may be inside together.
C18_LockDiscipline ==
    /\ Cardinality(WritersInside) <= 1
    /\ WritersInside # {} => ReadersInside = {}

\* C18, reached: two readers are inside at the same time, a Save and a Get.
C18_Witness ==
    /\ Cardinality(ReadersInside) = 2
    /\ \E p \in Procs : pc[p] = "save_encode"
    /\ \E p \in Procs : pc[p] = "get_read"
    /\ mu.readers = Procs

\* C19: a goroutine that is not in a call, because it has made none or because
\* its call has returned, with or without an error, holds the lock neither for
\* writing nor for reading, and neither does gcLoop outside its scan: when no
\* call is running and no scan, the lock is free for the next caller.
C19_LockBalance ==
    /\ \A p \in Procs :
          pc[p] \in {"idle", "done"} => (mu.writer # p /\ p \notin mu.readers)
    /\ gcpc # "scan" => mu.writer # GC
    /\ ((\A p \in Procs : pc[p] \in {"idle", "done"}) /\ gcpc # "scan") => LockFree

\* C19, reached: a Load has stored an item with a nil Object, a Save has
\* returned the error of the panic it recovered, and the lock is free.
C19_Witness ==
    \E p, q \in Procs :
        /\ pc[p] = "done" /\ loc[p].op = "Save" /\ loc[p].err = "EncodeError"
        /\ pc[q] = "done" /\ loc[q].op \in {"Load", "LoadFile"} /\ loc[q].err = "nil"
        /\ LockFree

\* C20: the scan of a pass of gcLoop removes only expired items: each item it
\* removes has an expiration that is positive and earlier than the clock at the
\* scan, whatever a Set wrote between the sample of the pass and its Lock; and
\* each item that is not expired at the scan, and each item the scan keeps,
\* is in the map after it with its value and its expiration.
C20_EvictsOnlyExpired ==
    [][(gcpc = "scan" /\ gcpc' = "select")
        => /\ DOMAIN items' \subseteq DOMAIN items
           /\ \A k \in DOMAIN items :
                IF k \in DOMAIN items'
                THEN items'[k] = items[k]
                ELSE /\ items[k].Expiration > 0
                     /\ items[k].Expiration < now
                     /\ Expired(items[k], now)]_vars

\* C20, reached: a pass has removed the expired item a Set had stored and has
\* kept the item, with a positive expiration, that was not expired.
C20_Witness ==
    /\ gcpc = "select"
    /\ \A p \in Procs : pc[p] = "done" /\ loc[p].op = "Set"
    /\ \E j \in Keys \ DOMAIN items : stamp[j].d > 0
    /\ \E k \in DOMAIN items : items[k].Expiration > 0 /\ ~Expired(items[k], now)

====
